---- MODULE Spec2Model ----
(***************************************************************************)
(* Model of app.py (Betterweather): the Streamlit script that resolves a   *)
(* location, fetches the NWS gridpoint dataset, builds the JSON document   *)
(* handed to Gemini and runs the conversational Q&A.                       *)
(*                                                                         *)
(* Three specifications share the module:                                  *)
(*   SpecReduce  - build_clean_nws_json and the STEP THREE period loop,     *)
(*                 applied to raw datasets drawn from a bounded set;       *)
(*   Spec        - the session: one action per script rerun;               *)
(*   SpecGet     - safe_get, one action per HTTP request.                  *)
(*                                                                         *)
(* JSON objects (Python dicts) are functions from key strings to values;   *)
(* JSON arrays of periods are sequences.  A timestamp string is modelled   *)
(* by the fields its text carries (wall-clock day, minute of the day, UTC  *)
(* offset in minutes) or, when it is not ISO-8601, by its text.            *)
(***************************************************************************)
EXTENDS Integers, Sequences, FiniteSets, TLC

VARIABLES
    raw,               \* reducer: st.session_state["nws_data"] seen by the helpers
    clock,             \* reducer: the server clock [utc, off] read by datetime.now()
    builds,            \* reducer: results of the build_clean_nws_json() calls so far
    step3,             \* reducer: result of the STEP THREE loop, or NoResult
    ticks,             \* reducer: number of clock advances so far
    session_state,     \* session: st.session_state
    api_key_ok,        \* session: st.secrets["GEMINI_API_KEY"] is usable
    fetch_seq,         \* session: number of datasets fetch_nws_from_latlon returned
    nws_data_id,       \* session: which fetch created session_state["nws_data"]
    requests,          \* session: the requests sent to Gemini by the latest rerun
    sg_pc,             \* safe_get: "idle", "call", "done"
    sg_retries,        \* safe_get: the retries argument of the active call
    sg_retries0,       \* safe_get: the retries argument of the outermost call
    sg_log,            \* safe_get: the responses received, in order
    sg_result,         \* safe_get: the returned (data, diag) pair
    f_pc,              \* fetch: "idle", "points", "loop", "done", "raised"
    f_props,           \* fetch: props, the properties of the /points answer
    f_i,               \* fetch: position of the loop in urls_to_fetch
    f_calls,           \* fetch: the safe_get results so far, by diagnostics key
    f_results,         \* fetch: the results dict
    f_status,          \* fetch: the fetch_status dict
    f_ret,             \* fetch: the returned (results, diagnostics) pair
    geo_pc,            \* geocode: "idle", "start", "primary", "fallback", "done"
    geo_text,          \* geocode: location_text, as its comma-separated parts
    geo_log,           \* geocode: the Census requests made and their outcomes
    geo_ret            \* geocode: the returned (coords, diagnostics) pair

rvars == <<raw, clock, builds, step3, ticks>>
svars == <<session_state, api_key_ok, fetch_seq, nws_data_id, requests>>
gvars == <<sg_pc, sg_retries, sg_retries0, sg_log, sg_result>>
fvars == <<f_pc, f_props, f_i, f_calls, f_results, f_status, f_ret>>
lvars == <<geo_pc, geo_text, geo_log, geo_ret>>
vars == <<raw, clock, builds, step3, ticks,
          session_state, api_key_ok, fetch_seq, nws_data_id, requests,
          sg_pc, sg_retries, sg_retries0, sg_log, sg_result,
          f_pc, f_props, f_i, f_calls, f_results, f_status, f_ret,
          geo_pc, geo_text, geo_log, geo_ret>>

---------------------------------------------------------------------------
(* Bounds *)

MaxPeriods == 2        \* longest hourly period list in a raw dataset
MaxBuilds == 2         \* build_clean_nws_json() calls per behaviour
MaxTicks == 1          \* clock advances per behaviour
MaxFetches == 2        \* datasets fetched per session
MaxTurns == 2          \* questions asked in the chat per session
MaxRetries == 2        \* largest retries argument given to safe_get

---------------------------------------------------------------------------
(* Python values *)

\* The empty dict {} used as the default of dict.get.
EmptyDict == [k \in {} |-> 0]

\* The value standing for a raised KeyError in place of a looked-up value.
KeyError == [exception |-> "KeyError"]

\* d[k] : raises KeyError when the key is absent.
dict_index(d, k, default) == IF k \in DOMAIN d THEN d[k] ELSE KeyError

\* d.get(k, default) : never raises on a dict.
dict_get(d, k, default) == IF k \in DOMAIN d THEN d[k] ELSE default

\* JSON scalars are tagged so that every value is a function: a string, and
\* Python's None (JSON null).
Str(s) == [str |-> s]
None == [none |-> TRUE]

MinutesPerDay == 1440
WindowMinutes == 72 * 60

\* A timestamp text "YYYY-MM-DDTHH:MM:00+hh:mm" by its fields.
Iso(day, minute, off) == [day |-> day, minute |-> minute, off |-> off]
NotADate == [text |-> "not-a-date"]

\* datetime.fromisoformat(s): an aware datetime, or ValueError.
fromisoformat(s) ==
    IF {"day", "minute", "off"} \subseteq DOMAIN s
    THEN [ok |-> TRUE, day |-> s.day, minute |-> s.minute, off |-> s.off]
    ELSE [ok |-> FALSE]

\* The absolute instant of an aware datetime, in minutes (UTC).
Instant(dt) == dt.day * MinutesPerDay + dt.minute - dt.off

\* datetime.now(): the naive wall-clock reading of the server clock.
datetime_now == [day |-> (clock.utc + clock.off) \div MinutesPerDay,
                 minute |-> (clock.utc + clock.off) % MinutesPerDay]


---------------------------------------------------------------------------
(* build_clean_nws_json *)

\* "metadata": raw.get("metadata", {})
clean_metadata(r) == dict_get(r, "metadata", EmptyDict)

\* Variant: the daily periods run through a 72-hour filter like the one the
\* hourly periods are documented to get.
clean_forecast_filtered(r) ==
    LET fc == dict_get(r, "forecast", EmptyDict)
        props == dict_get(fc, "properties", EmptyDict)
        ps == dict_get(props, "periods", <<>>)
        Keep(p) == /\ "startTime" \in DOMAIN p
                   /\ fromisoformat(p.startTime).ok
                   /\ Instant(fromisoformat(p.startTime)) <= clock.utc + WindowMinutes
    IN IF "periods" \in DOMAIN props
       THEN [properties |-> [periods |-> SelectSeq(ps, Keep)]]
       ELSE fc

\* Variant: raw["forecast"] instead of raw.get("forecast", {}).
clean_forecast_indexed(r) == dict_index(r, "forecast", EmptyDict)

\* "forecast": raw.get("forecast", {})
clean_forecast(r) == dict_get(r, "forecast", EmptyDict)

\* Variant: the camelCase spelling takes precedence.
clean_forecastHourly_camel_first(r) ==
    dict_get(r, "forecastHourly", dict_get(r, "forecast_hourly", EmptyDict))

\* "forecastHourly": raw.get("forecast_hourly", raw.get("forecastHourly", {}))
clean_forecastHourly(r) ==
    dict_get(r, "forecast_hourly", dict_get(r, "forecastHourly", EmptyDict))

\* "forecastGridData": raw.get("forecast_grid_data", raw.get("forecastGridData", {}))
clean_forecastGridData(r) ==
    dict_get(r, "forecast_grid_data", dict_get(r, "forecastGridData", EmptyDict))

\* "stations": raw.get("stations", {})
clean_stations(r) == dict_get(r, "stations", EmptyDict)

\* "gridInfo": the three identifiers read out of the metadata.
clean_gridInfo(r) ==
    [office |-> dict_get(dict_get(r, "metadata", EmptyDict), "gridId", None),
     gridX |-> dict_get(dict_get(r, "metadata", EmptyDict), "gridX", None),
     gridY |-> dict_get(dict_get(r, "metadata", EmptyDict), "gridY", None)]

\* Variant: the hourly section is taken out of the session dataset with
\* raw.pop(...) instead of being read with raw.get(...).
nws_data_after_build_pop(r) ==
    [k \in DOMAIN r \ {"forecast_hourly", "forecastHourly"} |-> r[k]]

\* st.session_state["nws_data"] after the call: the function only reads it.
nws_data_after_build(r) == r

\* The dict named clean.
clean_dict(r) ==
    [metadata |-> clean_metadata(r),
     forecast |-> clean_forecast(r),
     forecastHourly |-> clean_forecastHourly(r),
     forecastGridData |-> clean_forecastGridData(r),
     stations |-> clean_stations(r),
     gridInfo |-> clean_gridInfo(r)]

\* The call build_clean_nws_json() with r in st.session_state["nws_data"]:
\* exc is the exception that leaves the call ("none" when it returns), ret is
\* the JSON document json.dumps serialises (the text is modelled by the value
\* it encodes: json.dumps keeps every key and the order of every array), and
\* nws_data is the session dataset after the call.
build_clean_nws_json(r) ==
    LET c == clean_dict(r)
        sections == {c.metadata, c.forecast, c.forecastHourly,
                     c.forecastGridData, c.stations}
    IN [exc |-> IF KeyError \in sections THEN "KeyError" ELSE "none",
        ret |-> c,
        nws_data |-> nws_data_after_build(r)]

---------------------------------------------------------------------------
(* STEP THREE: the forecast periods starting tomorrow *)

\* periods = forecast.get("properties", {}).get("periods", [])
periods_of(section) ==
    dict_get(dict_get(section, "properties", EmptyDict), "periods", <<>>)

\* One iteration of the loop: the try body appends p when the date of its
\* startTime is tomorrow; a KeyError (no startTime) or a ValueError (text
\* that is not a timestamp) is swallowed by "except Exception: pass".
is_tomorrow_period(p, tomorrow) ==
    LET s == dict_index(p, "startTime", None)
    IN IF s = KeyError THEN FALSE
       ELSE IF ~fromisoformat(s).ok THEN FALSE
       ELSE fromisoformat(s).day = tomorrow

\* The whole block under `if "nws_data" in st.session_state`: what is shown
\* and the list tomorrow_periods.
step_three(r) ==
    LET forecast == dict_get(r, "forecast", EmptyDict)
        periods == periods_of(forecast)
        tomorrow == datetime_now.day + 1
        Match(p) == is_tomorrow_period(p, tomorrow)
        tomorrow_periods == SelectSeq(periods, Match)
    IN IF periods = <<>>
       THEN [exc |-> "none", shown |-> "no_periods", tomorrow_periods |-> <<>>]
       ELSE IF tomorrow_periods = <<>>
       THEN [exc |-> "none", shown |-> "no_tomorrow", tomorrow_periods |-> <<>>]
       ELSE [exc |-> "none", shown |-> "summary",
             tomorrow_periods |-> tomorrow_periods]

---------------------------------------------------------------------------
(* Raw datasets the reducer is applied to *)

Period(name, start) == [name |-> Str(name), startTime |-> start]
PeriodNoStart(name) == [name |-> Str(name)]

\* Hourly periods in delivery order.  With the clock at 10:00-08:00 of day 0
\* the 72-hour cutoff is 10:00-08:00 of day 3.
HourlyPool ==
    << Period("h_tomorrow", Iso(1, 360, -480)),
       Period("h_before", Iso(3, 599, -480)),
       Period("h_cutoff", Iso(3, 600, -480)),
       Period("h_after", Iso(3, 601, -480)),
       Period("h_bad", NotADate),
       PeriodNoStart("h_nostart") >>

\* The i-th smallest element of a set of numbers.
Nth(S, i) == CHOOSE k \in S : Cardinality({j \in S : j < k}) = i - 1

\* The sub-lists of pool, in pool order, of at most n elements.
SubLists(pool, n) ==
    { [i \in 1..Cardinality(S) |-> pool[Nth(S, i)]] :
        S \in {T \in SUBSET (1..Len(pool)) : Cardinality(T) <= n} }

DailyLists ==
    { <<>>,
      << Period("Tomorrow", Iso(1, 360, -480)) >>,
      << Period("Today", Iso(0, 360, -480)),
         Period("Tomorrow", Iso(1, 360, -480)),
         Period("NextWeek", Iso(6, 360, -480)) >>,
      << Period("Broken", NotADate),
         Period("Tomorrow", Iso(1, 360, -480)),
         PeriodNoStart("Nameless") >> }

Endpoint(ps) == [properties |-> [periods |-> ps]]

Series(unit) == [uom |-> Str(unit)]

\* The nine variable names of the documented allow-list.
GridAllowList ==
    {"temperature", "dewpoint", "relativeHumidity", "windSpeed", "windGust",
     "windDirection", "probabilityOfPrecipitation", "skyCover",
     "quantitativePrecipitation"}

GridEndpoints ==
    { [properties |-> [temperature |-> Series("degC")]],
      [properties |-> [temperature |-> Series("degC"),
                       visibility |-> Series("m")]],
      [properties |-> [windSpeed |-> Series("km_h-1"),
                       skyCover |-> Series("percent"),
                       updateTime |-> Str("2025-01-17T17:00:00+00:00")]] }

AltHourly == Endpoint(<< Period("h_camel", Iso(0, 720, -480)) >>)
AltGrid == [properties |-> [dewpoint |-> Series("degC")]]

Metadata ==
    [gridId |-> Str("LOX"), gridX |-> Str("155"), gridY |-> Str("45"),
     timeZone |-> Str("America/Los_Angeles")]

Opt(k, S) == {EmptyDict} \cup { k :> v : v \in S }

RawDatasets ==
    { ("metadata" :> Metadata) @@ ("fetch_status" :> EmptyDict)
        @@ fc @@ hs @@ hc @@ gs @@ gc @@ st :
        fc \in Opt("forecast", {Endpoint(ps) : ps \in DailyLists} \cup {EmptyDict}),
        hs \in Opt("forecast_hourly",
                   {Endpoint(ps) : ps \in SubLists(HourlyPool, MaxPeriods)}),
        hc \in Opt("forecastHourly", {AltHourly}),
        gs \in Opt("forecast_grid_data", GridEndpoints),
        gc \in Opt("forecastGridData", {AltGrid}),
        st \in Opt("stations", {[features |-> Str("KLAX")]}) }

ClockValues == { [utc |-> 1080, off |-> -480], [utc |-> 1080, off |-> 0] }

NoResult == [exc |-> "none", shown |-> "not_run", tomorrow_periods |-> <<>>]

---------------------------------------------------------------------------
(* Idle values of the variables a specification does not use *)

IdleReduce ==
    /\ raw = EmptyDict
    /\ clock = [utc |-> 0, off |-> 0]
    /\ builds = <<>>
    /\ step3 = NoResult
    /\ ticks = 0

IdleSession ==
    /\ session_state = EmptyDict
    /\ api_key_ok = TRUE
    /\ fetch_seq = 0
    /\ nws_data_id = 0
    /\ requests = <<>>

IdleGet ==
    /\ sg_pc = "idle"
    /\ sg_retries = 0
    /\ sg_retries0 = 0
    /\ sg_log = <<>>
    /\ sg_result = [data |-> None, diag |-> EmptyDict]

IdleFetch ==
    /\ f_pc = "idle"
    /\ f_props = EmptyDict
    /\ f_i = 0
    /\ f_calls = EmptyDict
    /\ f_results = None
    /\ f_status = EmptyDict
    /\ f_ret = [results |-> None, diagnostics |-> EmptyDict]

IdleGeo ==
    /\ geo_pc = "idle"
    /\ geo_text = <<>>
    /\ geo_log = <<>>
    /\ geo_ret = [coords |-> None, diagnostics |-> EmptyDict]

---------------------------------------------------------------------------
(* SpecReduce: the reducer applied to a raw dataset *)

InitReduce ==
    /\ raw \in RawDatasets
    /\ clock \in ClockValues
    /\ builds = <<>>
    /\ step3 = NoResult
    /\ ticks = 0
    /\ IdleSession
    /\ IdleGet
    /\ IdleFetch
    /\ IdleGeo

\* full_json_str = build_clean_nws_json()
BuildClean ==
    /\ Len(builds) < MaxBuilds
    /\ LET call == build_clean_nws_json(raw)
       IN /\ builds' = Append(builds, [exc |-> call.exc, doc |-> call.ret,
                                       at |-> clock])
          /\ raw' = call.nws_data
    /\ UNCHANGED <<clock, step3, ticks>>
    /\ UNCHANGED <<svars, gvars, fvars, lvars>>

\* The STEP THREE block of one rerun.
StepThree ==
    /\ step3 = NoResult
    /\ step3' = step_three(raw)
    /\ UNCHANGED <<raw, clock, builds, ticks>>
    /\ UNCHANGED <<svars, gvars, fvars, lvars>>

\* A minute passes on the server clock.
Tick ==
    /\ ticks < MaxTicks
    /\ ticks' = ticks + 1
    /\ clock' = [clock EXCEPT !.utc = @ + 1]
    /\ UNCHANGED <<raw, builds, step3>>
    /\ UNCHANGED <<svars, gvars, fvars, lvars>>

NextReduce == BuildClean \/ StepThree \/ Tick

SpecReduce == InitReduce /\ [][NextReduce]_vars

---------------------------------------------------------------------------
(* Spec: the session.  Streamlit runs the script top to bottom once per     *)
(* user interaction; an action is one such rerun, named after the widget   *)
(* that triggered it.  STEP THREE only displays and is left out here.      *)

\* st.session_state[k] = v
Set(ss, k, v) == [x \in DOMAIN ss \cup {k} |-> IF x = k THEN v ELSE ss[x]]

\* What geocode_us_location can resolve a location text to.
Coordinates ==
    { [lat |-> Str("33.66"), lon |-> Str("-118.00")],
      [lat |-> Str("40.71"), lon |-> Str("-74.00")] }

Questions == {"q1", "q2"}

EndpointKeys == {"forecast", "forecast_hourly", "forecast_grid_data", "stations"}

\* Per endpoint: "ok", "failed" (safe_get returned None) or "missing" (no URL
\* in the /points metadata).
FetchOutcomes ==
    { [k \in EndpointKeys |-> "ok"],
      [k \in EndpointKeys |-> IF k = "forecast_hourly" THEN "failed" ELSE "ok"],
      [k \in EndpointKeys |-> IF k = "forecast" THEN "missing" ELSE "ok"],
      [k \in EndpointKeys |-> "failed"] }

Payload(k) ==
    CASE k = "forecast" ->
            Endpoint(<< Period("Today", Iso(0, 360, -480)),
                        Period("Tomorrow", Iso(1, 360, -480)) >>)
      [] k = "forecast_hourly" ->
            Endpoint(<< HourlyPool[2], HourlyPool[4] >>)
      [] k = "forecast_grid_data" ->
            [properties |-> [temperature |-> Series("degC"),
                             visibility |-> Series("m")]]
      [] OTHER -> [features |-> Str("KLAX")]

\* The results dict of fetch_nws_from_latlon once /points has answered.
fetch_results(outcome) ==
    LET got == {k \in EndpointKeys : outcome[k] = "ok"}
        status(k) == IF outcome[k] = "ok" THEN Str("Success")
                     ELSE IF outcome[k] = "missing"
                     THEN Str("Missing URL in metadata")
                     ELSE Str("Failed")
    IN [k \in {"metadata", "fetch_status"} \cup got |->
          IF k = "metadata" THEN Metadata
          ELSE IF k = "fetch_status" THEN [e \in EndpointKeys |-> status(e)]
          ELSE Payload(k)]

Request(kind, keys, dataset, current, turns) ==
    [kind |-> kind, keys |-> keys, dataset |-> dataset, current |-> current,
     turns |-> turns]

UserTurns(h) == Cardinality({i \in 1..Len(h) : h[i].role = "user"})

\* STEP FOUR stops the script (st.stop()) when nws_data is loaded and
\* genai.configure fails.
stopped_at_four(ss) == "nws_data" \in DOMAIN ss /\ ~api_key_ok

\* STEP FOUR: the request of the "Get Answer" button, json.dumps of the whole
\* session dataset.  id names the fetch that created ss["nws_data"] and e the
\* widget that triggered the rerun.
step_four(ss, id, e) ==
    IF "nws_data" \in DOMAIN ss /\ api_key_ok /\ e = "get_answer"
    THEN << Request("qa", DOMAIN ss["nws_data"], id, id, <<>>) >>
    ELSE <<>>

\* Variant: the summary is generated on every rerun that has nws_data.
needs_summary_every_rerun(ss) == "nws_data" \in DOMAIN ss

\* The condition that guards STEP FIVE.
needs_summary(ss) ==
    "nws_data" \in DOMAIN ss /\ "nws_semantic_summary" \notin DOMAIN ss

\* STEP FIVE: the summary is generated when nws_data is loaded and no summary
\* is in the session; gen_ok tells whether the Gemini call returns a text.
step_five(ss, id, gen_ok) ==
    IF needs_summary(ss)
    THEN LET call == build_clean_nws_json(ss["nws_data"])
         IN IF call.exc # "none"
            THEN [ss |-> Set(ss, "nws_data", call.nws_data), requests |-> <<>>]
            ELSE [ss |-> IF gen_ok
                         THEN Set(Set(ss, "nws_data", call.nws_data),
                                  "nws_semantic_summary",
                                  [from_dataset |-> id,
                                   doc_keys |-> DOMAIN call.ret])
                         ELSE Set(ss, "nws_data", call.nws_data),
                  requests |-> << Request("summary", DOMAIN call.ret,
                                          id, id, <<>>) >>]
    ELSE [ss |-> ss, requests |-> <<>>]

\* Variant: the model input is built from the history as it was before the
\* question was appended.
full_context_before_append(ss, h0, asked) ==
    << [role |-> "system", content |-> ss["nws_semantic_summary"]] >> \o h0

\* full_context: the system turn that carries the summary, then every turn
\* of the history, read after the question was appended to it.
full_context(ss, h0, asked) ==
    << [role |-> "system", content |-> ss["nws_semantic_summary"]] >> \o asked

\* STEP SIX: the history is created when missing; a chat question q is
\* appended, the summary and the history are sent, and the answer is appended
\* when the streaming completes (ans_ok).
step_six(ss, id, e, q, ans_ok) ==
    IF "nws_semantic_summary" \notin DOMAIN ss
    THEN [ss |-> ss, requests |-> <<>>]
    ELSE LET h0 == dict_get(ss, "weather_chat_history", <<>>)
             asked == Append(h0, [role |-> "user", content |-> Str(q)])
             answered == Append(asked, [role |-> "assistant",
                                        content |-> Str("answer")])
         IN IF e # "chat"
            THEN [ss |-> Set(ss, "weather_chat_history", h0), requests |-> <<>>]
            ELSE IF ~api_key_ok
            THEN [ss |-> Set(ss, "weather_chat_history", asked),
                  requests |-> <<>>]
            ELSE [ss |-> Set(ss, "weather_chat_history",
                             IF ans_ok THEN answered ELSE asked),
                  requests |-> << Request("chat",
                                          ss["nws_semantic_summary"].doc_keys,
                                          ss["nws_semantic_summary"].from_dataset,
                                          id, full_context(ss, h0, asked)) >>]

\* STEP FOUR to STEP SIX of one rerun, from the session state ss left by
\* STEP ONE and STEP TWO.
script_tail(ss, id, e, q, gen_ok, ans_ok) ==
    IF stopped_at_four(ss)
    THEN [ss |-> ss, requests |-> <<>>]
    ELSE LET five == step_five(ss, id, gen_ok)
             six == step_six(five.ss, id, e, q, ans_ok)
         IN [ss |-> six.ss,
             requests |-> step_four(ss, id, e) \o five.requests \o six.requests]

Init ==
    /\ session_state = EmptyDict
    /\ api_key_ok \in BOOLEAN
    /\ fetch_seq = 0
    /\ nws_data_id = 0
    /\ requests = <<>>
    /\ IdleReduce
    /\ IdleGet
    /\ IdleFetch
    /\ IdleGeo

\* "Find Location" pressed with a non-empty location text.
RerunSubmit ==
    \E coords \in Coordinates \cup {None}, gen_ok \in BOOLEAN :
        LET ss1 == IF coords # None
                   THEN Set(Set(session_state, "lat", coords.lat), "lon", coords.lon)
                   ELSE session_state
            out == script_tail(ss1, nws_data_id, "submit", "", gen_ok, FALSE)
        IN /\ session_state' = out.ss
           /\ requests' = out.requests
           /\ UNCHANGED <<api_key_ok, fetch_seq, nws_data_id>>
           /\ UNCHANGED <<rvars, gvars, fvars, lvars>>

\* "Fetch NWS Weather Data" pressed; the button exists once lat and lon are
\* in the session.  fetched is None when the /points request failed.
RerunFetch ==
    /\ {"lat", "lon"} \subseteq DOMAIN session_state
    /\ fetch_seq < MaxFetches
    /\ \E fetched \in {None} \cup {fetch_results(o) : o \in FetchOutcomes},
          gen_ok \in BOOLEAN :
        LET ok == fetched # None
            id == IF ok THEN fetch_seq + 1 ELSE nws_data_id
            ss2 == IF ok THEN Set(session_state, "nws_data", fetched)
                   ELSE session_state
            out == script_tail(ss2, id, "fetch", "", gen_ok, FALSE)
        IN /\ session_state' = out.ss
           /\ requests' = out.requests
           /\ nws_data_id' = id
           /\ fetch_seq' = IF ok THEN fetch_seq + 1 ELSE fetch_seq
           /\ UNCHANGED api_key_ok
           /\ UNCHANGED <<rvars, gvars, fvars, lvars>>

\* "Get Answer" pressed with a question typed; the button exists once
\* nws_data is in the session and Gemini is configured.
RerunGetAnswer ==
    /\ "nws_data" \in DOMAIN session_state
    /\ api_key_ok
    /\ \E q \in Questions, gen_ok \in BOOLEAN :
        LET out == script_tail(session_state, nws_data_id, "get_answer", q,
                               gen_ok, FALSE)
        IN /\ session_state' = out.ss
           /\ requests' = out.requests
           /\ UNCHANGED <<api_key_ok, fetch_seq, nws_data_id>>
           /\ UNCHANGED <<rvars, gvars, fvars, lvars>>

\* A question entered in the chat input; the input exists once the summary
\* is in the session.
RerunChat ==
    /\ "nws_semantic_summary" \in DOMAIN session_state
    /\ api_key_ok
    /\ UserTurns(dict_get(session_state, "weather_chat_history", <<>>)) < MaxTurns
    /\ \E q \in Questions, ans_ok \in BOOLEAN :
        LET out == script_tail(session_state, nws_data_id, "chat", q,
                               FALSE, ans_ok)
        IN /\ session_state' = out.ss
           /\ requests' = out.requests
           /\ UNCHANGED <<api_key_ok, fetch_seq, nws_data_id>>
           /\ UNCHANGED <<rvars, gvars, fvars, lvars>>

\* Any other interaction (a checkbox, a text field) reruns the script too.
RerunOther ==
    \E gen_ok \in BOOLEAN :
        LET out == script_tail(session_state, nws_data_id, "other", "",
                               gen_ok, FALSE)
        IN /\ session_state' = out.ss
           /\ requests' = out.requests
           /\ UNCHANGED <<api_key_ok, fetch_seq, nws_data_id>>
           /\ UNCHANGED <<rvars, gvars, fvars, lvars>>

Next == RerunSubmit \/ RerunFetch \/ RerunGetAnswer \/ RerunChat \/ RerunOther

Spec == Init /\ [][Next]_vars

---------------------------------------------------------------------------
(* SpecGet: safe_get.  An action is one call frame: one requests.get and   *)
(* what the frame does with its outcome.                                   *)

\* retries=1 in the signature of safe_get.
DefaultRetries == 1

Statuses == {200, 404, 500, 503}
Bodies == {"object", "null", "invalid"}

\* What requests.get(url, headers=headers, timeout=10) can do: raise, or
\* return a response with a status code and a body.
Responses ==
    { [raised |-> TRUE, status_code |-> 0, body |-> "none"] }
        \cup { [raised |-> FALSE, status_code |-> st, body |-> b] :
                 st \in Statuses, b \in Bodies }

\* resp.json(): the decoded value, or an exception when the body is not JSON.
\* The JSON text null decodes to None.
resp_json(resp) ==
    CASE resp.body = "object" -> [ok |-> TRUE, value |-> [properties |-> EmptyDict]]
      [] resp.body = "null" -> [ok |-> TRUE, value |-> None]
      [] OTHER -> [ok |-> FALSE, value |-> None]

\* Variant: every error status is retried, not only the server-side ones.
should_retry_any_error(resp, retries) == resp.status_code >= 400 /\ retries > 0

\* if resp.status_code >= 500 and retries > 0
should_retry(resp, retries) == resp.status_code >= 500 /\ retries > 0

\* One frame of safe_get(url, headers, debug, retries) given the outcome of
\* its requests.get: it recurses, or returns (data, diag).  Both except
\* clauses return, so no exception leaves the frame.
safe_get_frame(resp, retries) ==
    IF resp.raised
    THEN [kind |-> "return", data |-> None,
          diag |-> [exception |-> Str("traceback")]]
    ELSE IF should_retry(resp, retries)
    THEN [kind |-> "recurse", data |-> None, diag |-> EmptyDict]
    ELSE IF resp.status_code # 200
    THEN [kind |-> "return", data |-> None,
          diag |-> [status_code |-> resp.status_code, error |-> Str("HTTP")]]
    ELSE IF resp_json(resp).ok
    THEN [kind |-> "return", data |-> resp_json(resp).value,
          diag |-> [status_code |-> resp.status_code, success |-> TRUE]]
    ELSE [kind |-> "return", data |-> None,
          diag |-> [status_code |-> resp.status_code,
                    error |-> Str("JSON decode failed"),
                    exception |-> Str("traceback")]]

InitGet ==
    /\ sg_pc = "call"
    /\ sg_retries0 \in 0..MaxRetries
    /\ sg_retries = sg_retries0
    /\ sg_log = <<>>
    /\ sg_result = [data |-> None, diag |-> EmptyDict]
    /\ IdleReduce
    /\ IdleSession
    /\ IdleFetch
    /\ IdleGeo

\* The frame recurses: return safe_get(url, headers, debug, retries - 1).
SafeGetRetry ==
    /\ sg_pc = "call"
    /\ \E resp \in Responses :
          /\ safe_get_frame(resp, sg_retries).kind = "recurse"
          /\ sg_log' = Append(sg_log, resp)
          /\ sg_retries' = sg_retries - 1
    /\ UNCHANGED <<sg_pc, sg_retries0, sg_result>>
    /\ UNCHANGED <<rvars, svars, fvars, lvars>>

\* The frame returns, and with it every frame above it.
SafeGetReturn ==
    /\ sg_pc = "call"
    /\ \E resp \in Responses :
          LET f == safe_get_frame(resp, sg_retries)
          IN /\ f.kind = "return"
             /\ sg_log' = Append(sg_log, resp)
             /\ sg_result' = [data |-> f.data, diag |-> f.diag]
    /\ sg_pc' = "done"
    /\ UNCHANGED <<sg_retries, sg_retries0>>
    /\ UNCHANGED <<rvars, svars, fvars, lvars>>

NextGet == SafeGetRetry \/ SafeGetReturn

\* A call, once made, runs: requests.get has a timeout and nothing else in
\* the frame waits.
SpecGet == InitGet /\ [][NextGet]_vars /\ WF_vars(NextGet)

---------------------------------------------------------------------------
(* SpecFetch: fetch_nws_from_latlon.  An action is the /points step, one   *)
(* iteration of the loop over urls_to_fetch, or the return after the loop. *)

\* The (data, diag) pairs a call safe_get(url, headers, debug, retries) can
\* return, over every sequence of responses its requests can get.
RECURSIVE safe_get_results(_)
safe_get_results(retries) ==
    UNION { IF safe_get_frame(resp, retries).kind = "recurse"
            THEN safe_get_results(retries - 1)
            ELSE { [data |-> safe_get_frame(resp, retries).data,
                    diag |-> safe_get_frame(resp, retries).diag] } :
            resp \in Responses }

\* A decoded JSON value that is not an object: a JSON array.
JsonArray == [array |-> TRUE]

\* v.get(...) raises AttributeError unless v is a dict.
is_dict(v) == v \notin {None, JsonArray}

UrlProps == {"forecast", "forecastHourly", "forecastGridData", "observationStations"}

\* The properties of a /points answer that names the URLs U.
PointsProps(U) ==
    [k \in {"gridId", "gridX", "gridY"} \cup U |->
        CASE k = "gridId" -> Str("LOX")
          [] k = "gridX" -> Str("155")
          [] k = "gridY" -> Str("45")
          [] OTHER -> Str("https://api.weather.gov/...")]

\* The JSON values a 200 answer of /points can decode to.
PointsJson ==
    { [properties |-> PointsProps(U)] : U \in SUBSET UrlProps }
        \cup { EmptyDict, [properties |-> None], [properties |-> JsonArray],
               JsonArray }

\* urls_to_fetch, in insertion order: the results key and the props key.
urls_to_fetch ==
    << [key |-> "forecast", prop |-> "forecast"],
       [key |-> "forecast_hourly", prop |-> "forecastHourly"],
       [key |-> "forecast_grid_data", prop |-> "forecastGridData"],
       [key |-> "stations", prop |-> "observationStations"] >>

\* Variant: the loop is left at the first endpoint that has no URL or whose
\* fetch fails (break in place of continue / of falling through).
after_iteration_break(i, fetched) == IF fetched THEN i + 1 ELSE Len(urls_to_fetch) + 1

\* The loop goes on to the next entry whatever happened to this one.
after_iteration(i, fetched) == i + 1

InitFetch ==
    /\ f_pc = "points"
    /\ f_props = EmptyDict
    /\ f_i = 0
    /\ f_calls = EmptyDict
    /\ f_results = None
    /\ f_status = EmptyDict
    /\ f_ret = [results |-> None, diagnostics |-> EmptyDict]
    /\ IdleReduce
    /\ IdleSession
    /\ IdleGet
    /\ IdleGeo

\* The /points request failed: return None, diagnostics.
FetchPointsFailed ==
    /\ f_pc = "points"
    /\ \E r \in safe_get_results(DefaultRetries) :
          /\ r.data = None
          /\ f_calls' = Set(f_calls, "points", r)
          /\ f_ret' = [results |-> None, diagnostics |-> [points |-> r.diag]]
    /\ f_pc' = "done"
    /\ UNCHANGED <<f_props, f_i, f_results, f_status>>
    /\ UNCHANGED <<rvars, svars, gvars, lvars>>

\* The /points request returned data: props is read out of it and results and
\* fetch_status are created; props.get raises when props is not a dict, and
\* so does points_json.get when the answer is not an object.
FetchPoints ==
    /\ f_pc = "points"
    /\ \E r \in safe_get_results(DefaultRetries), points_json \in PointsJson :
          /\ r.data # None
          /\ f_calls' = Set(f_calls, "points", [data |-> points_json, diag |-> r.diag])
          /\ IF is_dict(points_json)
                /\ is_dict(dict_get(points_json, "properties", EmptyDict))
             THEN /\ f_props' = dict_get(points_json, "properties", EmptyDict)
                  /\ f_results' = [metadata |-> dict_get(points_json, "properties",
                                                         EmptyDict)]
                  /\ f_i' = 1
                  /\ f_pc' = "loop"
             ELSE /\ f_pc' = "raised"
                  /\ UNCHANGED <<f_props, f_results, f_i>>
    /\ UNCHANGED <<f_status, f_ret>>
    /\ UNCHANGED <<rvars, svars, gvars, lvars>>

\* One iteration of `for key, url in urls_to_fetch.items()`.
FetchEndpoint ==
    /\ f_pc = "loop"
    /\ f_i <= Len(urls_to_fetch)
    /\ LET key == urls_to_fetch[f_i].key
           url == dict_get(f_props, urls_to_fetch[f_i].prop, None)
       IN IF url = None
          THEN /\ f_status' = Set(f_status, key, Str("Missing URL in metadata"))
               /\ f_i' = after_iteration(f_i, FALSE)
               /\ UNCHANGED <<f_calls, f_results>>
          ELSE \E r \in safe_get_results(DefaultRetries) :
                 LET data == IF r.data = None THEN None ELSE Payload(key)
                 IN /\ f_calls' = Set(f_calls, key, [data |-> data, diag |-> r.diag])
                    /\ IF data # None
                       THEN /\ f_results' = Set(f_results, key, data)
                            /\ f_status' = Set(f_status, key, Str("Success"))
                       ELSE /\ f_status' = Set(f_status, key, Str("Failed"))
                            /\ UNCHANGED f_results
                    /\ f_i' = after_iteration(f_i, data # None)
    /\ UNCHANGED <<f_pc, f_props, f_ret>>
    /\ UNCHANGED <<rvars, svars, gvars, lvars>>

\* results["fetch_status"] = fetch_status; return results, diagnostics
FetchReturn ==
    /\ f_pc = "loop"
    /\ f_i > Len(urls_to_fetch)
    /\ f_results' = Set(f_results, "fetch_status", f_status)
    /\ f_ret' = [results |-> Set(f_results, "fetch_status", f_status),
                 diagnostics |-> [k \in DOMAIN f_calls \cup {"grid_info"} |->
                                     IF k = "grid_info"
                                     THEN [office |-> dict_get(f_props, "gridId", None),
                                           gridX |-> dict_get(f_props, "gridX", None),
                                           gridY |-> dict_get(f_props, "gridY", None)]
                                     ELSE f_calls[k].diag]]
    /\ f_pc' = "done"
    /\ UNCHANGED <<f_props, f_i, f_calls, f_status>>
    /\ UNCHANGED <<rvars, svars, gvars, lvars>>

NextFetch == FetchPointsFailed \/ FetchPoints \/ FetchEndpoint \/ FetchReturn

SpecFetch == InitFetch /\ [][NextFetch]_vars

---------------------------------------------------------------------------
(* SpecGeo: geocode_us_location.  location_text is kept as the list that   *)
(* location_text.split(",") gives, so "," in location_text is Len >= 2.    *)
(* An action is the direct parse, the primary request with the handling of *)
(* its response, or the fallback request with the handling of its.         *)

MaxParts == 3

\* The pieces between the commas of location_text.
Parts == {"34.05", " -118.25", "Pasadena", " CA"}

\* p.strip()
strip(p) ==
    CASE p = " -118.25" -> "-118.25"
      [] p = " CA" -> "CA"
      [] OTHER -> p

ValueError == [exception |-> "ValueError"]

\* float(p), in hundredths; ValueError for text that is not a number.
float(p) ==
    CASE p = "34.05" -> [hundredths |-> 3405]
      [] p = "-118.25" -> [hundredths |-> 0 - 11825]
      [] OTHER -> ValueError

LocationTexts == UNION { [1..n -> Parts] : n \in 1..MaxParts }

\* The direct lat/lon parse: the coordinates, or None when the text is not
\* exactly two comma-separated floats.
direct_latlon(text) ==
    IF Len(text) >= 2 /\ Len(text) = 2
          /\ float(strip(text[1])) # ValueError
          /\ float(strip(text[2])) # ValueError
    THEN [lat |-> float(strip(text[1])), lon |-> float(strip(text[2]))]
    ELSE None

\* A JSON list.
List(s) == [list |-> s]

\* One entry of addressMatches: well-formed, without coordinates, or with
\* coordinates that lack "y".
Matches ==
    { [coordinates |-> [x |-> [hundredths |-> 0 - 11814], y |-> [hundredths |-> 3415]]],
      EmptyDict,
      [coordinates |-> [x |-> [hundredths |-> 0 - 11814]]] }

\* What resp.json() can give for a Census answer; InvalidJson makes it raise.
InvalidJson == [invalid |-> TRUE]

CensusBodies ==
    { InvalidJson, JsonArray, EmptyDict, [result |-> None], [result |-> EmptyDict],
      [result |-> [addressMatches |-> None]],
      [result |-> [addressMatches |-> List(<<>>)]] }
        \cup { [result |-> [addressMatches |-> List(<<m>>)]] : m \in Matches }

CensusStatuses == {200, 404, 500}

\* What requests.get(...) can do: raise, or return a response.
RequestRaised == [raised |-> TRUE]

CensusResponses ==
    { RequestRaised } \cup [status_code : CensusStatuses, body : CensusBodies]

\* The body of `if resp.status_code == 200` in either request: decode the
\* answer and take the first address match.  kind is "match" with coords,
\* "no_match" when result_list is falsy, or "exception" when a statement
\* of it raises.
first_match(body) ==
    IF body = InvalidJson \/ ~is_dict(body)
    THEN [kind |-> "exception", coords |-> None]
    ELSE IF ~is_dict(dict_get(body, "result", EmptyDict))
    THEN [kind |-> "exception", coords |-> None]
    ELSE LET result_list == dict_get(dict_get(body, "result", EmptyDict),
                                     "addressMatches", List(<<>>))
         IN IF result_list = None \/ result_list = List(<<>>)
            THEN [kind |-> "no_match", coords |-> None]
            ELSE LET match == result_list.list[1]
                     coords == dict_index(match, "coordinates", KeyError)
                 IN IF coords = KeyError
                          \/ dict_index(coords, "y", KeyError) = KeyError
                          \/ dict_index(coords, "x", KeyError) = KeyError
                    THEN [kind |-> "exception", coords |-> None]
                    ELSE [kind |-> "match",
                          coords |-> [lat |-> coords["y"], lon |-> coords["x"]]]

\* How one Census request ends: "exception" (requests.get or a later
\* statement raised), "http_error" (status other than 200), "match" or
\* "no_match".
census_attempt(resp) ==
    IF resp = RequestRaised THEN [kind |-> "exception", coords |-> None]
    ELSE IF resp.status_code # 200 THEN [kind |-> "http_error", coords |-> None]
    ELSE first_match(resp.body)

\* Variant: the primary request falls through to the fallback whenever it
\* did not produce a match.
after_primary_fall_through(kind) == IF kind = "match" THEN "done" ELSE "fallback"

\* Where control goes after the primary request: the function returns from
\* inside the try block or from its except clause, and reaches the fallback
\* only by leaving the try block normally.
after_primary(kind) == IF kind = "no_match" THEN "fallback" ELSE "done"

\* diagnostics after the direct parse was tried and the function went on.
diag_before_primary(text) ==
    LET d0 == IF Len(text) = 2
              THEN [latlon_error |-> Str("Could not parse lat/lon")]
              ELSE EmptyDict
        d1 == Set(d0, "census_request_url", Str("https://geocoding.geo.census.gov/..."))
    IN Set(d1, "census_params",
           [address |-> text, benchmark |-> Str("Public_AR_Current"),
            format |-> Str("json")])

\* diagnostics written while the primary response is handled.
diag_after_primary(d, resp) ==
    LET a == census_attempt(resp)
        d1 == IF resp = RequestRaised THEN d
              ELSE Set(d, "status_code", resp.status_code)
        d2 == IF resp # RequestRaised /\ resp.status_code = 200
                    /\ resp.body # InvalidJson
              THEN Set(d1, "raw_json", resp.body) ELSE d1
    IN CASE a.kind = "exception" -> Set(d2, "exception", Str("traceback"))
         [] a.kind = "http_error" -> Set(d2, "http_error", Str("HTTP status"))
         [] a.kind = "match" -> Set(d2, "method", Str("census_address"))
         [] OTHER ->
              Set(Set(d2, "fallback_request_url",
                      Str("https://geocoding.geo.census.gov/...")),
                  "fallback_params",
                  [address |-> d["census_params"].address,
                   benchmark |-> Str("4"), format |-> Str("json")])

\* diagnostics written while the fallback response is handled.
diag_after_fallback(d, resp) ==
    LET a == census_attempt(resp)
        d1 == IF resp = RequestRaised THEN d
              ELSE Set(d, "fallback_status", resp.status_code)
        d2 == IF resp # RequestRaised /\ resp.status_code = 200
                    /\ resp.body # InvalidJson
              THEN Set(d1, "fallback_json", resp.body) ELSE d1
        d3 == IF a.kind = "exception"
              THEN Set(d2, "fallback_exception", Str("traceback")) ELSE d2
    IN IF a.kind = "match"
       THEN Set(d3, "method", Str("census_fallback"))
       ELSE Set(d3, "error", Str("Unable to geocode with US Census"))

InitGeo ==
    /\ geo_pc = "start"
    /\ geo_text \in LocationTexts
    /\ geo_log = <<>>
    /\ geo_ret = [coords |-> None, diagnostics |-> EmptyDict]
    /\ IdleReduce
    /\ IdleSession
    /\ IdleGet
    /\ IdleFetch

\* 1. direct lat/lon parsing
GeoDirect ==
    /\ geo_pc = "start"
    /\ IF direct_latlon(geo_text) # None
       THEN /\ geo_ret' = [coords |-> direct_latlon(geo_text),
                           diagnostics |-> [method |-> Str("direct lat/lon")]]
            /\ geo_pc' = "done"
       ELSE /\ geo_ret' = [coords |-> None,
                           diagnostics |-> diag_before_primary(geo_text)]
            /\ geo_pc' = "primary"
    /\ UNCHANGED <<geo_text, geo_log>>
    /\ UNCHANGED <<rvars, svars, gvars, fvars>>

\* 2. the primary Census request
GeoPrimary ==
    /\ geo_pc = "primary"
    /\ \E resp \in CensusResponses :
          /\ geo_log' = Append(geo_log, [request |-> "primary", resp |-> resp])
          /\ geo_ret' = [coords |-> census_attempt(resp).coords,
                         diagnostics |-> diag_after_primary(geo_ret.diagnostics, resp)]
          /\ geo_pc' = after_primary(census_attempt(resp).kind)
    /\ UNCHANGED geo_text
    /\ UNCHANGED <<rvars, svars, gvars, fvars>>

\* 3. the fallback Census request, and the final return
GeoFallback ==
    /\ geo_pc = "fallback"
    /\ \E resp \in CensusResponses :
          /\ geo_log' = Append(geo_log, [request |-> "fallback", resp |-> resp])
          /\ geo_ret' = [coords |-> census_attempt(resp).coords,
                         diagnostics |-> diag_after_fallback(geo_ret.diagnostics, resp)]
    /\ geo_pc' = "done"
    /\ UNCHANGED geo_text
    /\ UNCHANGED <<rvars, svars, gvars, fvars>>

NextGeo == GeoDirect \/ GeoPrimary \/ GeoFallback

SpecGeo == InitGeo /\ [][NextGeo]_vars

---------------------------------------------------------------------------
(* Properties of the reducer, checked under SpecReduce *)

InSeq(x, seq) == \E j \in 1..Len(seq) : seq[j] = x

Parseable(p) == "startTime" \in DOMAIN p /\ fromisoformat(p.startTime).ok

\* The sections of the raw dataset under either spelling.
RawDaily == periods_of(dict_get(raw, "forecast", EmptyDict))
RawHourlySection ==
    IF "forecast_hourly" \in DOMAIN raw THEN raw["forecast_hourly"]
    ELSE IF "forecastHourly" \in DOMAIN raw THEN raw["forecastHourly"]
    ELSE EmptyDict
RawGridSection ==
    IF "forecast_grid_data" \in DOMAIN raw THEN raw["forecast_grid_data"]
    ELSE IF "forecastGridData" \in DOMAIN raw THEN raw["forecastGridData"]
    ELSE EmptyDict
RawHourly == periods_of(RawHourlySection)
GridVars(section) == dict_get(section, "properties", EmptyDict)

Built == {builds[i] : i \in 1..Len(builds)}

\* C1: every hourly record of the raw dataset with a parseable start instant
\* is in the hourly section of the built document if and only if its start
\* instant is <= now + 72h, now being the clock at the time of the build.
C1_HourlyWindow ==
    \A b \in Built :
        \A i \in 1..Len(RawHourly) :
            Parseable(RawHourly[i]) =>
                (InSeq(RawHourly[i], periods_of(b.doc.forecastHourly))
                    <=> Instant(fromisoformat(RawHourly[i].startTime))
                            <= b.at.utc + WindowMinutes)

\* C2: the grid section of the built document has no variable outside the
\* nine-name allow-list, and keeps every allow-listed variable of the raw
\* grid data.
C2_GridAllowList ==
    \A b \in Built :
        /\ DOMAIN GridVars(b.doc.forecastGridData) \subseteq GridAllowList
        /\ \A k \in DOMAIN GridVars(RawGridSection) \cap GridAllowList :
              /\ k \in DOMAIN GridVars(b.doc.forecastGridData)
              /\ GridVars(b.doc.forecastGridData)[k] = GridVars(RawGridSection)[k]

\* C4: the daily periods of the built document are the daily periods of the
\* raw dataset: same length, same elements, same order.
C4_DailyPassThrough ==
    \A b \in Built :
        /\ Len(periods_of(b.doc.forecast)) = Len(RawDaily)
        /\ \A i \in 1..Len(RawDaily) : periods_of(b.doc.forecast)[i] = RawDaily[i]

\* A document was built from a dataset with three daily periods, one of them
\* more than 72 hours ahead.
C4_Witness ==
    /\ builds # <<>>
    /\ Len(RawDaily) = 3
    /\ \E i \in 1..3 :
          /\ Parseable(RawDaily[i])
          /\ Instant(fromisoformat(RawDaily[i].startTime))
                > builds[1].at.utc + WindowMinutes

\* The raw dataset without the period records whose start is not parseable.
WithoutMalformed(r) ==
    LET Fix(k) == [properties |-> [periods |-> SelectSeq(periods_of(r[k]), Parseable)]]
        ks == {"forecast", "forecast_hourly", "forecastHourly"}
    IN [k \in DOMAIN r |->
          IF k \in ks /\ periods_of(r[k]) # <<>> THEN Fix(k) ELSE r[k]]

\* C6: a period record whose startTime is not a parseable timestamp is
\* dropped without raising, and the other records are processed as if it
\* were absent: in the built document as well as in the STEP THREE loop.
C6_MalformedDropped ==
    /\ \A b \in Built :
          /\ b.exc = "none"
          /\ \A i \in 1..Len(periods_of(b.doc.forecastHourly)) :
                Parseable(periods_of(b.doc.forecastHourly)[i])
          /\ periods_of(b.doc.forecastHourly)
                = periods_of(build_clean_nws_json(WithoutMalformed(raw)).ret.forecastHourly)
    /\ step3.exc = "none"
    /\ \A i \in 1..Len(step3.tomorrow_periods) : Parseable(step3.tomorrow_periods[i])

\* C7: a top-level section that is absent from the raw dataset is treated as
\* an empty collection: the build and the STEP THREE block complete without
\* raising and the section is empty in their results.
C7_MissingSections ==
    /\ \A b \in Built :
          /\ b.exc = "none"
          /\ "forecast" \notin DOMAIN raw =>
                b.doc.forecast = EmptyDict /\ periods_of(b.doc.forecast) = <<>>
          /\ {"forecast_hourly", "forecastHourly"} \cap DOMAIN raw = {} =>
                b.doc.forecastHourly = EmptyDict
                    /\ periods_of(b.doc.forecastHourly) = <<>>
          /\ {"forecast_grid_data", "forecastGridData"} \cap DOMAIN raw = {} =>
                b.doc.forecastGridData = EmptyDict
    /\ step3.exc = "none"
    /\ (step3.shown # "not_run" /\ "forecast" \notin DOMAIN raw) =>
          step3.shown = "no_periods" /\ step3.tomorrow_periods = <<>>

\* The build and the STEP THREE block ran on a dataset with none of the three
\* forecast sections.
C7_Witness ==
    /\ builds # <<>>
    /\ step3.shown = "no_periods"
    /\ {"forecast", "forecast_hourly", "forecastHourly",
        "forecast_grid_data", "forecastGridData"} \cap DOMAIN raw = {}

\* C8: the hourly and grid sections are read under the snake_case or the
\* camelCase name and the document carries each under one name only; when
\* the raw dataset has both spellings the document holds the snake_case value.
C8_OneSpelling ==
    \A b \in Built :
        /\ {"forecastHourly", "forecastGridData"} \subseteq DOMAIN b.doc
        /\ {"forecast_hourly", "forecast_grid_data"} \cap DOMAIN b.doc = {}
        /\ b.doc.forecastHourly = RawHourlySection
        /\ b.doc.forecastGridData = RawGridSection

\* A document was built from a dataset that has the hourly section under
\* both spellings, with different values.
C8_Witness ==
    /\ builds # <<>>
    /\ {"forecast_hourly", "forecastHourly"} \subseteq DOMAIN raw
    /\ raw["forecast_hourly"] # raw["forecastHourly"]
    /\ builds[1].doc.forecastHourly = raw["forecast_hourly"]

\* C9: a build leaves the session's raw dataset as it was, and a build at
\* the same clock reading as the previous build returns the same document.
C9_Idempotent ==
    [][BuildClean =>
         /\ raw' = raw
         /\ (builds # <<>> /\ builds[Len(builds)].at = clock) =>
               /\ builds'[Len(builds')].doc = builds[Len(builds)].doc
               /\ builds'[Len(builds')].exc = builds[Len(builds)].exc]_vars

\* Two documents were built at the same clock reading from a dataset with
\* hourly periods.
C9_Witness ==
    /\ Len(builds) >= 2
    /\ builds[1].at = builds[2].at
    /\ builds[1].doc = builds[2].doc
    /\ Len(periods_of(builds[1].doc.forecastHourly)) >= 2

---------------------------------------------------------------------------
(* Properties of the session, checked under Spec *)

Sent == {requests[i] : i \in 1..Len(requests)}

\* C3: every request to the LLM embeds the reduced dataset only, a document
\* whose top-level keys are exactly daily, hourly and grid; metadata,
\* stations, fetch_status and grid info are never in it.
C3_OnlyReducedDataset ==
    \A r \in Sent :
        /\ r.keys = {"daily", "hourly", "grid"}
        /\ r.keys \cap {"metadata", "stations", "fetch_status", "gridInfo"} = {}

\* C5: every question-answering request (Get Answer or chat) carries context
\* derived from the dataset the session holds when it is sent.
C5_ContextFromCurrentDataset ==
    \A r \in Sent : r.kind \in {"qa", "chat"} => r.dataset = r.current

---------------------------------------------------------------------------
(* Properties of safe_get, checked under SpecGet *)

LastResponse == sg_log[Len(sg_log)]

\* What the returned pair must be once the call is over: the requests made
\* are bounded by retries + 1; a request is re-issued only after a response
\* (not an exception) with status >= 500; data is decided by the last response.
SafeGetDone(data_expected) ==
    sg_pc = "done" =>
        /\ Len(sg_log) >= 1
        /\ Len(sg_log) <= sg_retries0 + 1
        /\ sg_retries0 = DefaultRetries => Len(sg_log) <= 2
        /\ \A i \in 1..(Len(sg_log) - 1) :
              ~sg_log[i].raised /\ sg_log[i].status_code >= 500
        /\ (sg_result.data # None) <=> data_expected
        /\ DOMAIN sg_result.diag # {}

\* C10 as stated: safe_get returns non-None data if and only if the last
\* response had status 200 and decodable JSON.
C10_Original ==
    SafeGetDone(/\ ~LastResponse.raised
                /\ LastResponse.status_code = 200
                /\ resp_json(LastResponse).ok)

\* C10, amended: safe_get terminates without raising; it makes at most
\* retries + 1 requests (2 with the default), re-issues one only after a
\* response with status >= 500 while retries remain, and returns non-None
\* data if and only if the last response had status 200 and a body that
\* decodes as JSON to a value other than null.
C10_SafeGet ==
    /\ [] SafeGetDone(/\ ~LastResponse.raised
                      /\ LastResponse.status_code = 200
                      /\ resp_json(LastResponse).ok
                      /\ resp_json(LastResponse).value # None)
    /\ <>(sg_pc = "done")

\* A call with the default retries was retried after a 5xx response and then
\* got a 200 response whose body is the JSON text null.
C10_Witness ==
    /\ sg_pc = "done"
    /\ sg_retries0 = DefaultRetries
    /\ Len(sg_log) = 2
    /\ sg_log[1].status_code >= 500
    /\ LastResponse.status_code = 200
    /\ LastResponse.body = "null"
    /\ sg_result.data = None
    /\ "success" \in DOMAIN sg_result.diag

---------------------------------------------------------------------------
(* Properties of fetch_nws_from_latlon, checked under SpecFetch *)

PointsFailed == f_calls["points"].data = None

\* The /points answer is an object whose properties member is an object, or
\* is absent.
PointsWellFormed ==
    /\ is_dict(f_calls["points"].data)
    /\ is_dict(dict_get(f_calls["points"].data, "properties", EmptyDict))

\* The function returned results in which every endpoint is settled:
\* fetch_status has an entry for each of the four endpoints, results has an
\* endpoint's key exactly when safe_get was called for it and returned data,
\* and safe_get was called for every endpoint that has a URL.
EndpointsSettled ==
    /\ f_pc = "done"
    /\ f_ret.results # None
    /\ DOMAIN f_ret.results["fetch_status"] = EndpointKeys
    /\ \A i \in 1..Len(urls_to_fetch) :
          LET key == urls_to_fetch[i].key
              has_url == urls_to_fetch[i].prop \in DOMAIN f_props
          IN /\ has_url <=> key \in DOMAIN f_calls
             /\ key \in DOMAIN f_ret.results
                   <=> (key \in DOMAIN f_calls /\ f_calls[key].data # None)

\* C11 as stated: the results are None if and only if the /points request
\* failed, and otherwise every endpoint is settled.
C11_Original ==
    f_pc \in {"done", "raised"} =>
        /\ (f_pc = "done" /\ f_ret.results = None) <=> PointsFailed
        /\ ~PointsFailed => EndpointsSettled

\* C11, amended: the results are None if and only if the /points request
\* failed; otherwise, when the /points answer is an object whose properties
\* member is an object or absent, every endpoint is settled, and for any
\* other /points answer the function raises instead of returning.
C11_Fetch ==
    f_pc \in {"done", "raised"} =>
        /\ (f_pc = "done" /\ f_ret.results = None) <=> PointsFailed
        /\ (~PointsFailed /\ PointsWellFormed) => EndpointsSettled
        /\ (~PointsFailed /\ ~PointsWellFormed) <=> f_pc = "raised"

\* The function returned after an endpoint without URL and an endpoint whose
\* fetch failed, with a later endpoint fetched successfully.
C11_Witness ==
    /\ f_pc = "done"
    /\ f_ret.results # None
    /\ f_ret.results["fetch_status"]["forecast"] = Str("Missing URL in metadata")
    /\ f_ret.results["fetch_status"]["forecast_hourly"] = Str("Failed")
    /\ "stations" \in DOMAIN f_ret.results

---------------------------------------------------------------------------
(* Properties of geocode_us_location, checked under SpecGeo *)

\* location_text is exactly two comma-separated floats.
TwoFloats ==
    /\ Len(geo_text) = 2
    /\ \A i \in 1..2 : strip(geo_text[i]) \in {"34.05", "-118.25"}

\* The response is HTTP 200 with a body that holds no address matches.
NoAddressMatches(resp) ==
    /\ resp # RequestRaised
    /\ resp.status_code = 200
    /\ resp.body \in { EmptyDict, [result |-> EmptyDict],
                       [result |-> [addressMatches |-> None]],
                       [result |-> [addressMatches |-> List(<<>>)]] }

\* C12: geocode_us_location never raises and every return is a pair of
\* coordinates-or-None and diagnostics; two comma-separated floats are
\* returned as the coordinates with no request made; any other input makes
\* the primary request first; the fallback request is made, after it, only
\* when the primary answered 200 with no address matches; a non-200 status or
\* an exception on the primary request returns None with no fallback.
C12_Geocode ==
    /\ geo_pc \in {"idle", "start", "primary", "fallback", "done"}
    /\ Len(geo_log) <= 2
    /\ \A i \in 1..Len(geo_log) :
          geo_log[i].request = (IF i = 1 THEN "primary" ELSE "fallback")
    /\ TwoFloats => geo_log = <<>>
    /\ Len(geo_log) = 2 => NoAddressMatches(geo_log[1].resp)
    /\ geo_pc = "done" =>
          /\ DOMAIN geo_ret = {"coords", "diagnostics"}
          /\ geo_ret.coords # None => DOMAIN geo_ret.coords = {"lat", "lon"}
          /\ TwoFloats =>
                geo_ret.coords = [lat |-> float(strip(geo_text[1])),
                                  lon |-> float(strip(geo_text[2]))]
          /\ ~TwoFloats => Len(geo_log) >= 1
          /\ (Len(geo_log) >= 1 /\ ~NoAddressMatches(geo_log[1].resp)) =>
                /\ Len(geo_log) = 1
                /\ (geo_log[1].resp = RequestRaised
                       \/ geo_log[1].resp.status_code # 200
                       \/ "exception" \in DOMAIN geo_ret.diagnostics)
                      => geo_ret.coords = None

\* The function returned coordinates found by the fallback request, made
\* after a primary request that answered 200 without a match, for a text
\* with one comma that is not two floats.
C12_Witness ==
    /\ geo_pc = "done"
    /\ Len(geo_text) = 2
    /\ ~TwoFloats
    /\ Len(geo_log) = 2
    /\ geo_ret.coords # None
    /\ geo_ret.diagnostics["method"] = Str("census_fallback")

---------------------------------------------------------------------------
(* Properties of the session keys and of the chat history, checked under   *)
(* Spec                                                                    *)

Keys == DOMAIN session_state

\* The session keys are nested by stage.
Nested ==
    /\ "weather_chat_history" \in Keys => "nws_semantic_summary" \in Keys
    /\ "nws_semantic_summary" \in Keys => "nws_data" \in Keys
    /\ "nws_data" \in Keys => {"lat", "lon"} \subseteq Keys

\* A rerun removes no key.
KeysKept == Keys \subseteq Keys'

\* Once the summary is in the session, a rerun neither asks for a summary
\* nor writes the key.
SummaryOnce ==
    "nws_semantic_summary" \in Keys =>
        /\ session_state'["nws_semantic_summary"] = session_state["nws_semantic_summary"]
        /\ \A i \in 1..Len(requests') : requests'[i].kind # "summary"

\* C13: in every reachable session state the keys are nested by stage
\* (weather_chat_history => nws_semantic_summary => nws_data => lat and lon);
\* no rerun removes a key, and nws_semantic_summary is written at most once.
C13_SessionKeys == []Nested /\ [][KeysKept /\ SummaryOnce]_vars

\* All five keys are set, the session holds its second dataset and the
\* summary is still the one written from the first.
C13_Witness ==
    /\ Keys = {"lat", "lon", "nws_data", "nws_semantic_summary",
               "weather_chat_history"}
    /\ nws_data_id = 2
    /\ session_state["nws_semantic_summary"].from_dataset = 1

History == dict_get(session_state, "weather_chat_history", <<>>)

AssistantTurns(h) == Cardinality({i \in 1..Len(h) : h[i].role = "assistant"})

\* Every assistant turn directly follows a user turn.
Answered(h) ==
    \A i \in 1..Len(h) :
        h[i].role = "assistant" => i > 1 /\ h[i - 1].role = "user"

\* One rerun extends the history by nothing, by a user turn, or by a user
\* turn and its answer; every chat request holds the system turn with the
\* summary and then the history with the new question last; an answer is
\* added only by a rerun that made the chat request.
ChatTurn ==
    LET n == Len(History)
        chats == {i \in 1..Len(requests') : requests'[i].kind = "chat"}
    IN /\ Len(History') >= n
       /\ SubSeq(History', 1, n) = History
       /\ Len(History') <= n + 2
       /\ Len(History') > n => History'[n + 1].role = "user"
       /\ Len(History') = n + 2 =>
             /\ History'[n + 2].role = "assistant"
             /\ chats # {}
       /\ \A i \in chats :
             /\ Len(History') > n
             /\ requests'[i].turns =
                   << [role |-> "system",
                       content |-> session_state["nws_semantic_summary"]] >>
                       \o History \o << History'[n + 1] >>

\* C14: weather_chat_history is append-only; on a chat turn the question is
\* appended before the model call, and the model receives the system context
\* followed by all history turns in order with the new question last; an
\* assistant turn is appended only when the call completes, so the assistant
\* turns never outnumber the user turns.
C14_ChatHistory ==
    /\ [](AssistantTurns(History) <= UserTurns(History) /\ Answered(History))
    /\ [][ChatTurn]_vars

\* A chat call that failed after an answered one: the history ends with a
\* user turn that has no answer, and the request that carried it was sent.
C14_Witness ==
    /\ Len(History) = 3
    /\ History[2].role = "assistant"
    /\ History[3].role = "user"
    /\ \E i \in 1..Len(requests) :
          /\ requests[i].kind = "chat"
          /\ Len(requests[i].turns) = 4
          /\ requests[i].turns[4] = History[3]

====
